---------------------------- MODULE Spec2Model ----------------------------
(***************************************************************************)
(* Model of software/train_model.py, the training pipeline of the          *)
(* non-invasive glucose monitor: load_data, preprocess_data (with its      *)
(* nested remove_outliers), train_model, evaluate_model, save_coefficients *)
(* and the order in which main calls them.                                 *)
(*                                                                         *)
(* Numbers.  Sensor values are integers.  The input values are even, so    *)
(* that the median of an even number of them (the mean of the two middle   *)
(* ones) is again an integer.  Quartiles are kept multiplied by 4 and the  *)
(* IQR fences multiplied by 8, so that pandas' linear interpolation and    *)
(* the factor 1.5 are computed exactly.                                    *)
(***************************************************************************)
EXTENDS Integers, Sequences, FiniteSets, TLC

VARIABLES
    \* ---- load_data ----
    mode,       \* "dir" | "file": os.path.isdir(data_path)
    listing,    \* the directory's entries in os.listdir order (file mode: the file)
    files,      \* the entries whose name ends with .csv
    fileIdx,    \* position of the for loop over files
    dfs,        \* the list of parsed frames
    data,       \* the frame load_data builds and returns
    lpc,        \* position in load_data
    lerr,       \* the error load_data raised ("" if none)
    \* ---- preprocess_data ----
    raw,        \* the records the environment put in the source
    pin,        \* the frame passed to preprocess_data
    pcur,       \* the local variable data of preprocess_data
    ppc,        \* position in preprocess_data
    \* ---- remove_outliers applied in isolation ----
    roIn, roOnce, roTwice, roPc,
    \* ---- main from the split on, and the files it leaves ----
    rpc,        \* position in main (and in the function it is calling)
    runs,       \* number of runs started
    modelType,  \* args.model
    nrows,      \* number of rows of processed_data
    model,      \* the estimator train_model returned (NoModel before)
    fitted,     \* what fit learned: intercept and one coefficient per feature
    errMsg,     \* the message of the exception that ended the run
    failedAt,   \* the position at which it was raised
    clock,      \* the wall clock, in seconds
    disk,       \* the paths that exist
    written,    \* the paths this run has written
    exports,    \* one entry per call of save_coefficients: its timestamp and paths
    ret,        \* what save_coefficients returned
    table,      \* the rows of the coefficient table this run wrote
    header      \* the constants of the firmware header this run wrote

loadVars == <<mode, listing, files, fileIdx, dfs, data, lpc, lerr>>
preVars  == <<raw, pin, pcur, ppc>>
roVars   == <<roIn, roOnce, roTwice, roPc>>
runVars  == <<rpc, runs, modelType, nrows, model, fitted, errMsg, failedAt,
              clock, disk, written, exports, ret, table, header>>
vars     == <<loadVars, preVars, roVars, runVars>>

\* A cell of a numeric column is NaN (missing) or holds a number.
NaN == <<>>
Num(v) == <<v>>
Val(x) == x[1]

Range(s) == {s[i] : i \in 1..Len(s)}

FilterSeq(s, Keep(_)) == SelectSeq(s, Keep)

\* ------------------------------------------------------------------------
\* Frames: a frame is a sequence of rows, a row a function from column
\* names to values; "idx" is the row's pandas index label.
\* ------------------------------------------------------------------------

Row(i, t, r, v, s, g) ==
    [idx |-> i, timestamp |-> t, ratio |-> r, variability |-> v,
     slope |-> s, glucose |-> g]

\* Two rows are the same record when they agree on every column (the index
\* label is not a column).
SameRecord(a, b) ==
    /\ DOMAIN a = DOMAIN b
    /\ \A c \in (DOMAIN a) \ {"idx"} : a[c] = b[c]

\* DataFrame.drop_duplicates(): the first of each group of equal rows stays.
drop_duplicates(df) ==
    LET keep[i \in 0..Len(df)] ==
            IF i = 0 THEN <<>>
            ELSE IF \E j \in 1..(i-1) : SameRecord(df[j], df[i])
                 THEN keep[i-1]
                 ELSE Append(keep[i-1], df[i])
    IN  keep[Len(df)]

\* DataFrame.dropna(subset=['glucose'])
dropna_glucose(df) ==
    LET Has(r) == r["glucose"] # NaN IN FilterSeq(df, Has)

NoDuplicateRows(df) ==
    \A i, j \in 1..Len(df) : i # j => ~SameRecord(df[i], df[j])

\* ------------------------------------------------------------------------
\* Order statistics of a column
\* ------------------------------------------------------------------------

\* The present (non-NaN) values of column col, as a sequence.
Present(df, col) ==
    LET Has(r) == r[col] # NaN
        rows == FilterSeq(df, Has)
    IN  [i \in 1..Len(rows) |-> Val(rows[i][col])]

\* The k-th smallest (1-based) entry of a non-empty sequence of integers.
KthSmallest(xs, k) ==
    CHOOSE v \in Range(xs) :
        /\ Cardinality({i \in 1..Len(xs) : xs[i] < v}) < k
        /\ Cardinality({i \in 1..Len(xs) : xs[i] <= v}) >= k

\* numpy median: the middle value, or the mean of the two middle values.
Median(xs) ==
    LET n == Len(xs) IN
    IF n % 2 = 1 THEN KthSmallest(xs, (n + 1) \div 2)
    ELSE (KthSmallest(xs, n \div 2) + KthSmallest(xs, n \div 2 + 1)) \div 2

\* 4 * Series.quantile(k/4) with linear interpolation: the position is
\* (n-1)*k/4, lo its integer part and r/4 its fraction.
Quantile4(xs, k) ==
    LET n  == Len(xs)
        lo == (k * (n - 1)) \div 4
        r  == (k * (n - 1)) % 4
        a  == KthSmallest(xs, lo + 1)
    IN  IF r = 0 THEN 4 * a
        ELSE 4 * a + r * (KthSmallest(xs, lo + 2) - a)


\* ------------------------------------------------------------------------
\* preprocess_data
\* ------------------------------------------------------------------------

GlucoseMin == 40
GlucoseMax == 400
\* factor=1.5, kept doubled
Factor2 == 3
PulseNumerator == 60
\* 1 / 1e-6
EpsilonInv == 1000000

ImputeCols  == <<"ratio", "variability", "slope">>
OutlierCols == <<"ratio", "variability", "slope", "glucose">>

\* SimpleImputer(strategy='median').fit: one statistic per column, the
\* median of the column's present values in the frame it is fitted on.
ImputerStatisticsInRange(df) ==
    LET InRange(r) == /\ r["glucose"] # NaN
                      /\ Val(r["glucose"]) >= GlucoseMin
                      /\ Val(r["glucose"]) <= GlucoseMax
        kept == FilterSeq(df, InRange)
    IN  [c \in Range(ImputeCols) |->
            IF Len(Present(kept, c)) = 0 THEN NaN ELSE Num(Median(Present(kept, c)))]

ImputerStatistics(df) ==
    [c \in Range(ImputeCols) |->
        IF Len(Present(df, c)) = 0 THEN NaN ELSE Num(Median(Present(df, c)))]

\* fit_transform raises on a frame without rows; a column without any
\* present value is dropped from its result, and the assignment of the
\* narrower array to the three columns raises.
ImputerRaises(df) ==
    \/ Len(df) = 0
    \/ \E c \in Range(ImputeCols) : Len(Present(df, c)) = 0

\* data[[...]] = imputer.fit_transform(data[[...]])
Imputed(df) ==
    LET stat == ImputerStatistics(df) IN
    [i \in 1..Len(df) |->
        [c \in DOMAIN df[i] |->
            IF c \in Range(ImputeCols) /\ df[i][c] = NaN
            THEN stat[c] ELSE df[i][c]]]

\* data[(data['glucose'] >= 40) | (data['glucose'] <= 400)]
PhysFilterEither(df) ==
    LET Keep(r) == /\ r["glucose"] # NaN
                   /\ (Val(r["glucose"]) >= GlucoseMin \/ Val(r["glucose"]) <= GlucoseMax)
    IN  FilterSeq(df, Keep)

\* data[(data['glucose'] >= 40) & (data['glucose'] <= 400)]
PhysFilter(df) ==
    LET Keep(r) == /\ r["glucose"] # NaN
                   /\ Val(r["glucose"]) >= GlucoseMin
                   /\ Val(r["glucose"]) <= GlucoseMax
    IN  FilterSeq(df, Keep)

\* The two derived columns, as exact fractions:
\*   pulse_rate = 60 / (variability + 1e-6),  acdc_ratio = variability / ratio
\* (a zero denominator is the float division's inf or nan, no exception).
Derived(df) ==
    [i \in 1..Len(df) |->
        [c \in (DOMAIN df[i]) \cup {"pulse_rate", "acdc_ratio"} |->
            IF c = "pulse_rate"
            THEN [num |-> PulseNumerator * EpsilonInv,
                  den |-> Val(df[i]["variability"]) * EpsilonInv + 1]
            ELSE IF c = "acdc_ratio"
            THEN [num |-> Val(df[i]["variability"]), den |-> Val(df[i]["ratio"])]
            ELSE df[i][c]]]

\* One iteration of remove_outliers' loop with the out-of-fence values
\* pulled to the fence instead of their rows being dropped.
OutlierStepClip(df, col) ==
    LET xs == Present(df, col) IN
    IF Len(xs) = 0 THEN <<>>
    ELSE LET q1  == Quantile4(xs, 1)
             q3  == Quantile4(xs, 3)
             iqr == q3 - q1
             lo8 == 2 * q1 - Factor2 * iqr
             hi8 == 2 * q3 + Factor2 * iqr
         IN  [i \in 1..Len(df) |->
                IF df[i][col] = NaN THEN df[i]
                ELSE IF 8 * Val(df[i][col]) < lo8
                     THEN [df[i] EXCEPT ![col] = Num(lo8 \div 8)]
                ELSE IF 8 * Val(df[i][col]) > hi8
                     THEN [df[i] EXCEPT ![col] = Num(hi8 \div 8)]
                ELSE df[i]]

\* One iteration of remove_outliers' loop: the quartiles of the column over
\* the rows still in df, then the rows inside the fences.  On a frame
\* without rows the quantiles are NaN and every comparison is False.
OutlierStep(df, col) ==
    LET xs == Present(df, col) IN
    IF Len(xs) = 0 THEN <<>>
    ELSE LET q1  == Quantile4(xs, 1)
             q3  == Quantile4(xs, 3)
             iqr == q3 - q1
             Keep(r) == /\ r[col] # NaN
                        /\ 8 * Val(r[col]) >= 2 * q1 - Factor2 * iqr
                        /\ 8 * Val(r[col]) <= 2 * q3 + Factor2 * iqr
         IN  FilterSeq(df, Keep)

\* remove_outliers(df, columns): the columns in order, each on what the
\* previous ones left.
remove_outliers(df, columns) ==
    LET acc[n \in 0..Len(columns)] ==
            IF n = 0 THEN df ELSE OutlierStep(acc[n-1], columns[n])
    IN  acc[Len(columns)]

\* ------------------------------------------------------------------------
\* The records a source can hold
\* ------------------------------------------------------------------------

MaxRows == 4

RatioVals       == <<NaN, Num(2), Num(6)>>
VariabilityVals == <<NaN, Num(2)>>
GlucoseVals     == <<Num(38), Num(100), Num(400), Num(402)>>
PoolSize == Len(RatioVals) * Len(VariabilityVals) * Len(GlucoseVals)

\* The k-th record of the pool; all at the same timestamp, with slope 0.
PoolRow(k, i) ==
    LET j == k - 1 IN
    Row(i, 1,
        RatioVals[(j % Len(RatioVals)) + 1],
        VariabilityVals[((j \div Len(RatioVals)) % Len(VariabilityVals)) + 1],
        Num(0),
        GlucoseVals[(j \div (Len(RatioVals) * Len(VariabilityVals))) + 1])

\* What load_data returns for a source holding the records ks: the index
\* labels are 0..n-1 (ignore_index / read_csv), then lines 65-66.
LoadedFrame(ks) ==
    dropna_glucose(drop_duplicates([i \in 1..Len(ks) |-> PoolRow(ks[i], i - 1)]))

\* The row of df with index label i.
RowAt(df, i) == CHOOSE r \in Range(df) : r["idx"] = i

IdleLoad ==
    /\ mode = "dir" /\ listing = <<>> /\ files = <<>> /\ fileIdx = 0 /\ dfs = <<>>
    /\ data = <<>> /\ lpc = "idle" /\ lerr = ""

IdlePre == raw = <<>> /\ pin = <<>> /\ pcur = <<>> /\ ppc = "idle"

IdleRO == roIn = <<>> /\ roOnce = <<>> /\ roTwice = <<>> /\ roPc = "idle"

NoModel == [cls |-> "none"]
NoFit   == [intercept |-> 0, coef |-> <<>>]
NoPath  == <<>>

IdleRun ==
    /\ rpc = "idle" /\ runs = 0 /\ modelType = "" /\ nrows = 0
    /\ model = NoModel /\ fitted = NoFit /\ errMsg = <<>> /\ failedAt = ""
    /\ clock = 0 /\ disk = {} /\ written = {} /\ exports = <<>>
    /\ ret = NoPath /\ table = <<>> /\ header = <<>>

\* ---- the steps of preprocess_data --------------------------------------

InitPre == /\ raw = <<>> /\ pin = <<>> /\ pcur = <<>> /\ ppc = "source"
           /\ IdleLoad /\ IdleRO /\ IdleRun

\* The environment adds a record to the source (pool order, no repeats).
Record(k) ==
    /\ ppc = "source"
    /\ Len(raw) < MaxRows
    /\ Len(raw) > 0 => k > raw[Len(raw)]
    /\ raw' = Append(raw, k)
    /\ UNCHANGED <<pin, pcur, ppc, loadVars, roVars, runVars>>

\* main, lines 262-263: preprocess_data is called on load_data's result.
CallPreprocess ==
    /\ ppc = "source"
    /\ pin' = LoadedFrame(raw)
    /\ pcur' = LoadedFrame(raw)
    /\ ppc' = "impute"
    /\ UNCHANGED <<raw, loadVars, roVars, runVars>>

ImputeRaise ==
    /\ ppc = "impute"
    /\ ImputerRaises(pcur)
    /\ ppc' = "failed"
    /\ UNCHANGED <<raw, pin, pcur, loadVars, roVars, runVars>>

Impute ==
    /\ ppc = "impute"
    /\ ~ImputerRaises(pcur)
    /\ pcur' = Imputed(pcur)
    /\ ppc' = "filter"
    /\ UNCHANGED <<raw, pin, loadVars, roVars, runVars>>

Filter ==
    /\ ppc = "filter"
    /\ pcur' = PhysFilter(pcur)
    /\ ppc' = "derive"
    /\ UNCHANGED <<raw, pin, loadVars, roVars, runVars>>

Derive ==
    /\ ppc = "derive"
    /\ pcur' = Derived(pcur)
    /\ ppc' = "outliers"
    /\ UNCHANGED <<raw, pin, loadVars, roVars, runVars>>

RemoveOutliers ==
    /\ ppc = "outliers"
    /\ pcur' = remove_outliers(pcur, OutlierCols)
    /\ ppc' = "done"
    /\ UNCHANGED <<raw, pin, loadVars, roVars, runVars>>

NextPre ==
    \/ \E k \in 1..PoolSize : Record(k)
    \/ CallPreprocess
    \/ ImputeRaise
    \/ Impute
    \/ Filter
    \/ Derive
    \/ RemoveOutliers

SpecPre == InitPre /\ [][NextPre]_vars

\* ---- remove_outliers applied twice -------------------------------------

MaxOutlierRows == 5

OutlierRatioVals       == <<Num(0), Num(2), Num(10)>>
OutlierVariabilityVals == <<Num(0), Num(2)>>
OutlierPoolSize == Len(OutlierRatioVals) * Len(OutlierVariabilityVals)

OutlierPoolRow(k, i) ==
    LET j == k - 1 IN
    Row(i, 1,
        OutlierRatioVals[(j % Len(OutlierRatioVals)) + 1],
        OutlierVariabilityVals[(j \div Len(OutlierRatioVals)) + 1],
        Num(0), Num(100))

InitRO == /\ roIn = <<>> /\ roOnce = <<>> /\ roTwice = <<>> /\ roPc = "source"
          /\ IdleLoad /\ IdlePre /\ IdleRun

\* The environment adds a row to the frame (pool order, repeats allowed).
AddRow(k) ==
    /\ roPc = "source"
    /\ Len(roIn) < MaxOutlierRows
    /\ Len(roIn) > 0 => k >= roIn[Len(roIn)]
    /\ roIn' = Append(roIn, k)
    /\ UNCHANGED <<roOnce, roTwice, roPc, loadVars, preVars, runVars>>

OutlierFrame(ks) == [i \in 1..Len(ks) |-> OutlierPoolRow(ks[i], i - 1)]

ApplyOnce ==
    /\ roPc = "source"
    /\ roOnce' = remove_outliers(OutlierFrame(roIn), OutlierCols)
    /\ roPc' = "once"
    /\ UNCHANGED <<roIn, roTwice, loadVars, preVars, runVars>>

ApplyTwice ==
    /\ roPc = "once"
    /\ roTwice' = remove_outliers(roOnce, OutlierCols)
    /\ roPc' = "twice"
    /\ UNCHANGED <<roIn, roOnce, loadVars, preVars, runVars>>

NextRO ==
    \/ \E k \in 1..OutlierPoolSize : AddRow(k)
    \/ ApplyOnce
    \/ ApplyTwice

SpecRO == InitRO /\ [][NextRO]_vars

\* ------------------------------------------------------------------------
\* load_data
\* ------------------------------------------------------------------------

MaxFiles == 3

RequiredCols == {"timestamp", "ratio", "variability", "slope", "glucose"}

NoValidFilesMsg == "No valid CSV files found in directory"
MissingColsMsg  == "Missing required columns"
ParseErrorMsg   == "read_csv raised"

\* The files a directory can hold.  A file has a name, parses or not, and
\* if it parses yields the frame read_csv returns: its columns and rows.
FileRow(i, t, r, g) == Row(i, t, Num(r), Num(2), Num(0), g)

NoGlucose(r) == [c \in (DOMAIN r) \ {"glucose"} |-> r[c]]

FilePool ==
    << [name |-> "a.csv", csv |-> TRUE, parses |-> TRUE, cols |-> RequiredCols,
        rows |-> <<FileRow(0, 1, 2, Num(100)), FileRow(1, 2, 6, Num(100))>>],
       [name |-> "b.csv", csv |-> TRUE, parses |-> TRUE, cols |-> RequiredCols,
        rows |-> <<FileRow(0, 2, 6, Num(100)), FileRow(1, 3, 2, NaN)>>],
       [name |-> "bad.csv", csv |-> TRUE, parses |-> FALSE, cols |-> {},
        rows |-> <<>>],
       [name |-> "nog.csv", csv |-> TRUE, parses |-> TRUE,
        cols |-> RequiredCols \ {"glucose"},
        rows |-> <<NoGlucose(FileRow(0, 4, 2, NaN))>>],
       [name |-> "notes.txt", csv |-> FALSE, parses |-> TRUE,
        cols |-> RequiredCols,
        rows |-> <<FileRow(0, 5, 2, Num(100))>>] >>

\* pd.read_csv(file_path) of a file that parses
read_csv(f) == [cols |-> f.cols, rows |-> f.rows]

\* pd.concat(dfs, ignore_index=True): the union of the columns, a row
\* missing a column holding NaN there, the index renumbered from 0.
concat(frames) ==
    LET cols == UNION {frames[i].cols : i \in 1..Len(frames)}
        Widen(r) == [c \in cols \cup {"idx"} |->
                        IF c \in DOMAIN r THEN r[c] ELSE NaN]
        all[n \in 0..Len(frames)] ==
            IF n = 0 THEN <<>>
            ELSE all[n-1] \o [j \in 1..Len(frames[n].rows) |->
                                Widen(frames[n].rows[j])]
    IN  [cols |-> cols,
         rows |-> [j \in 1..Len(all[Len(frames)]) |->
                     [all[Len(frames)][j] EXCEPT !["idx"] = j - 1]]]

\* Lines 42-47 and 55: read_csv is inside a try/except only in the
\* directory branch.
ParseFailureAlwaysFatal(m) == TRUE

ParseFailureFatal(m) == m = "file"

InitLoad ==
    /\ mode = "dir" /\ listing = <<>> /\ files = <<>> /\ fileIdx = 0
    /\ dfs = <<>> /\ data = <<>> /\ lpc = "source" /\ lerr = ""
    /\ IdlePre /\ IdleRO /\ IdleRun

\* The environment puts a file in the directory.
PutFile(k) ==
    /\ lpc = "source"
    /\ Len(listing) < MaxFiles
    /\ \A i \in 1..Len(listing) : listing[i] # FilePool[k]
    /\ listing' = Append(listing, FilePool[k])
    /\ UNCHANGED <<mode, files, fileIdx, dfs, data, lpc, lerr, preVars, roVars, runVars>>

\* load_data(data_path) with data_path a directory: lines 36-39.
LoadDirectory ==
    /\ lpc = "source"
    /\ mode' = "dir"
    /\ files' = LET IsCsv(f) == f.csv IN FilterSeq(listing, IsCsv)
    /\ fileIdx' = 1
    /\ dfs' = <<>>
    /\ lpc' = "loop"
    /\ UNCHANGED <<listing, data, lerr, preVars, roVars, runVars>>

\* load_data(data_path) with data_path a file: the else branch, line 55.
LoadSingleFile ==
    /\ lpc = "source"
    /\ Len(listing) = 1
    /\ mode' = "file"
    /\ files' = listing
    /\ fileIdx' = 1
    /\ IF listing[1].parses
       THEN /\ data' = read_csv(listing[1])
            /\ lpc' = "columns"
            /\ lerr' = lerr
       ELSE /\ ParseFailureFatal("file")
            /\ data' = data
            /\ lpc' = "failed"
            /\ lerr' = ParseErrorMsg
    /\ UNCHANGED <<listing, dfs, preVars, roVars, runVars>>

\* One iteration of the for loop, lines 40-47.
ReadFile ==
    /\ lpc = "loop"
    /\ fileIdx <= Len(files)
    /\ files[fileIdx].parses
    /\ dfs' = Append(dfs, read_csv(files[fileIdx]))
    /\ fileIdx' = fileIdx + 1
    /\ UNCHANGED <<mode, listing, files, data, lpc, lerr, preVars, roVars, runVars>>

ReadFileRaises ==
    /\ lpc = "loop"
    /\ fileIdx <= Len(files)
    /\ ~files[fileIdx].parses
    /\ IF ParseFailureFatal(mode)
       THEN /\ lpc' = "failed"
            /\ lerr' = ParseErrorMsg
            /\ fileIdx' = fileIdx
       ELSE /\ lpc' = lpc
            /\ lerr' = lerr
            /\ fileIdx' = fileIdx + 1
    /\ UNCHANGED <<mode, listing, files, dfs, data, preVars, roVars, runVars>>

\* Lines 49-50
NoValidFiles ==
    /\ lpc = "loop"
    /\ fileIdx > Len(files)
    /\ dfs = <<>>
    /\ lpc' = "failed"
    /\ lerr' = NoValidFilesMsg
    /\ UNCHANGED <<mode, listing, files, fileIdx, dfs, data, preVars, roVars, runVars>>

\* Line 52
Concat ==
    /\ lpc = "loop"
    /\ fileIdx > Len(files)
    /\ dfs # <<>>
    /\ data' = concat(dfs)
    /\ lpc' = "columns"
    /\ UNCHANGED <<mode, listing, files, fileIdx, dfs, lerr, preVars, roVars, runVars>>

\* Lines 59-62
MissingColumns ==
    /\ lpc = "columns"
    /\ ~(RequiredCols \subseteq data.cols)
    /\ lpc' = "failed"
    /\ lerr' = MissingColsMsg
    /\ UNCHANGED <<mode, listing, files, fileIdx, dfs, data, preVars, roVars, runVars>>

\* Lines 65-71
CleanAndReturn ==
    /\ lpc = "columns"
    /\ RequiredCols \subseteq data.cols
    /\ data' = [data EXCEPT !.rows = dropna_glucose(drop_duplicates(data.rows))]
    /\ lpc' = "done"
    /\ UNCHANGED <<mode, listing, files, fileIdx, dfs, lerr, preVars, roVars, runVars>>

NextLoad ==
    \/ \E k \in 1..Len(FilePool) : PutFile(k)
    \/ LoadDirectory
    \/ LoadSingleFile
    \/ ReadFile
    \/ ReadFileRaises
    \/ NoValidFiles
    \/ Concat
    \/ MissingColumns
    \/ CleanAndReturn

SpecLoad == InitLoad /\ [][NextLoad]_vars

\* ------------------------------------------------------------------------
\* Properties of load_data
\* ------------------------------------------------------------------------

\* The frames of the directory's .csv entries that parse, in listing order.
ParsedCsvFrames ==
    LET Good(f) == f.csv /\ f.parses
        good == FilterSeq(listing, Good)
    IN  [i \in 1..Len(good) |-> read_csv(good[i])]

\* C3: in directory mode load_data raises the no-valid-files error exactly
\* when none of the directory's .csv entries parses (none at all included);
\* a file that fails to parse never ends the load with its own error, and
\* the frame returned is made of the files that parse, all of them and only
\* them.
C3_DirectoryLoad ==
    (mode = "dir" /\ lpc \in {"failed", "done"}) =>
        /\ lerr = NoValidFilesMsg <=> Len(ParsedCsvFrames) = 0
        /\ lerr # ParseErrorMsg
        /\ lpc = "done" =>
              data.rows = dropna_glucose(drop_duplicates(concat(ParsedCsvFrames).rows))

\* A directory load that returned a frame although one of the .csv entries
\* did not parse.
C3_Witness ==
    /\ mode = "dir"
    /\ lpc = "done"
    /\ Len(data.rows) > 0
    /\ \E i \in 1..Len(listing) : listing[i].csv /\ ~listing[i].parses

\* ------------------------------------------------------------------------
\* Properties of preprocess_data
\* ------------------------------------------------------------------------

\* C1: every row of the frame preprocess_data returns has
\* 40 <= glucose <= 400, and so has every row of its working frame from the
\* physiological filter on (feature derivation and outlier removal bring no
\* row outside the range back).
C1_GlucoseInRange ==
    ppc \in {"derive", "outliers", "done"} =>
        \A i \in 1..Len(pcur) :
            /\ pcur[i]["glucose"] # NaN
            /\ Val(pcur[i]["glucose"]) >= GlucoseMin
            /\ Val(pcur[i]["glucose"]) <= GlucoseMax

\* A run whose input held glucose values below 40 and above 400 and which
\* returned rows.
C1_Witness ==
    /\ ppc = "done"
    /\ Len(pcur) > 0
    /\ \E i \in 1..Len(pin) : Val(pin[i]["glucose"]) < GlucoseMin
    /\ \E i \in 1..Len(pin) : Val(pin[i]["glucose"]) > GlucoseMax

\* C8 (as claimed): the frame load_data hands to preprocess_data holds no
\* two rows equal in every column, and neither does the frame
\* preprocess_data returns.
C8_NoDuplicatesAfterPreprocess ==
    /\ ppc \in {"impute", "filter", "derive", "outliers", "done", "failed"} =>
            NoDuplicateRows(pin)
    /\ ppc = "done" => NoDuplicateRows(pcur)

\* C10: in the frame preprocess_data returns (and in its working frame from
\* the imputation on), every row has, in each of ratio, variability and
\* slope, the value it had on input if that was present, and otherwise the
\* median of the column's present values over the whole frame passed in.
C10_ImputedWithInputMedian ==
    ppc \in {"filter", "derive", "outliers", "done"} =>
        \A i \in 1..Len(pcur) : \A c \in Range(ImputeCols) :
            LET was == RowAt(pin, pcur[i]["idx"])[c] IN
            /\ was # NaN => pcur[i][c] = was
            /\ was = NaN => pcur[i][c] = Num(Median(Present(pin, c)))

\* A returned row whose ratio was missing on input, from an input in which
\* the physiological filter removed a row whose ratio counted in the median:
\* the median over the rows in range is another number.
C10_Witness ==
    /\ ppc = "done"
    /\ \E i \in 1..Len(pcur) : RowAt(pin, pcur[i]["idx"])["ratio"] = NaN
    /\ Len(Present(PhysFilter(pin), "ratio")) > 0
    /\ Median(Present(PhysFilter(pin), "ratio")) # Median(Present(pin, "ratio"))

\* ------------------------------------------------------------------------
\* Properties of remove_outliers
\* ------------------------------------------------------------------------

\* s is t with some of its rows left out, the others in t's order.
SubFrame(s, t) ==
    LET In(r) == r \in Range(s) IN s = FilterSeq(t, In)

\* C2 (as claimed): remove_outliers applied to its own result returns it
\* unchanged.
C2_Idempotent ==
    roPc = "twice" => roTwice = roOnce

\* C2 (amended): a pass of remove_outliers only leaves rows out, so the
\* result of the second pass is the result of the first with some rows
\* (possibly none) left out, the remaining rows unchanged and in order.
C2_SecondPassOnlyRemoves ==
    /\ roPc \in {"once", "twice"} => SubFrame(roOnce, OutlierFrame(roIn))
    /\ roPc = "twice" => SubFrame(roTwice, roOnce)

\* The second pass left out a row that the first pass had kept.
C2_Witness ==
    /\ roPc = "twice"
    /\ Len(roTwice) < Len(roOnce)
    /\ Len(roTwice) > 0

\* ------------------------------------------------------------------------
\* main from the split on: train_model, evaluate_model, save_coefficients
\* ------------------------------------------------------------------------

MaxRuns    == 2
MaxClock   == 1
MaxSamples == 2

\* 1 / test_size, for the default test_size of 0.2
TestFractionInv == 5

Recognized == {"linear", "random_forest", "gradient_boosting"}
ModelTypes == Recognized \cup {"svm"}

\* Line 266: the feature columns, in the order of X_train's columns.
FeatureCols == <<"ratio", "variability", "slope", "pulse_rate", "acdc_ratio">>

\* Coefficient values, in units of 1e-7.
CoefVals == {-12, 17}

\* model.__class__.__name__ of the estimator train_model constructs
ClassName(mt) ==
    CASE mt = "linear"            -> "LinearRegression"
      [] mt = "random_forest"     -> "RandomForestRegressor"
      [] mt = "gradient_boosting" -> "GradientBoostingRegressor"

IsLinear(m)   == m.cls = "LinearRegression"
IsEnsemble(m) == m.cls \in {"RandomForestRegressor", "GradientBoostingRegressor"}
\* hasattr(model, 'feature_importances_')
HasImportances(m) == IsEnsemble(m)

\* train_test_split: n_test = ceil(n * test_size), the rest is the training
\* set; an empty frame or an empty training set raises.
TrainSize(n) == n - ((n + TestFractionInv - 1) \div TestFractionInv)
SplitRaises(n) == n = 0 \/ TrainSize(n) = 0

\* f"Unknown model type: {model_type}"
UnknownModelMsg(mt) == <<"Unknown model type: ", mt>>

\* strftime("%Y%m%d_%H%M%S") of a clock value: one text per second
strftime(t) == ToString(t)

ClarkePath(cls)     == <<"cwd", "clarke_grid_", cls, ".png">>
ResidualsPath(cls)  == <<"cwd", "residuals_", cls, ".png">>
ImportancePath(cls) == <<"cwd", "feature_importance_", cls, ".png">>
ScatterPath         == <<"cwd", "glucose_predictions_scatter.png">>
OutputDir           == <<"output_dir">>
\* f"{model_name}_coeff.csv"
CoeffPathUnstamped(cls, t) == <<"output_dir", cls, "_coeff", ".csv">>
CoeffPath(cls, t)   == <<"output_dir", cls, "_coeff_", strftime(t), ".csv">>
HeaderPath          == <<"output_dir", "model_coefficients.h">>
JoblibPath(cls, t)  == <<"output_dir", cls, "_", strftime(t), ".joblib">>

\* np.append(arr, values)
np_append(arr, at, v) == Append(arr, v)

\* np.insert(arr, obj, values): v placed before the entry at 0-based index at
np_insert(arr, at, v) ==
    SubSeq(arr, 1, at) \o <<v>> \o SubSeq(arr, at + 1, Len(arr))

\* Lines 217-222: the rows of coeff_df
CoeffTable(m, features) ==
    LET coeffs == np_insert(m.coef_, 0, m.intercept_)
        names  == <<"intercept">> \o features
    IN  [i \in 1..Len(names) |-> [feature |-> names[i], coefficient |-> coeffs[i]]]

\* f"{x:.6f}": x, given in units of 1e-7, rounded to the nearest 1e-6 (ties
\* to even); the result in units of 1e-6.
Fmt6(x) ==
    LET q == x \div 10
        r == x % 10
    IN  IF r > 5 \/ (r = 5 /\ q % 2 = 1) THEN q + 1 ELSE q

\* Lines 230-231: one constant per row of coeff_df
HeaderConstants(tbl) ==
    [i \in 1..Len(tbl) |-> [name |-> tbl[i].feature, literal |-> Fmt6(tbl[i].coefficient)]]

\* The timestamp of the running call of save_coefficients
CurTs == exports[Len(exports)].ts

\* The file written at a position of the run
PathAt(pos) ==
    CASE pos = "clarke"     -> ClarkePath(model.cls)
      [] pos = "residuals"  -> ResidualsPath(model.cls)
      [] pos = "importance" -> ImportancePath(model.cls)
      [] pos = "csv"        -> CoeffPath(model.cls, CurTs)
      [] pos = "header"     -> HeaderPath
      [] pos = "joblib"     -> JoblibPath(model.cls, CurTs)
      [] pos = "scatter"    -> ScatterPath

WritePositions == {"clarke", "residuals", "importance", "csv", "header", "joblib", "scatter"}
ExportPositions == {"csv", "header", "joblib"}

\* exports with path p added to the running call's paths
Exported(p) ==
    [exports EXCEPT ![Len(exports)].paths = @ \cup {p}]

\* main has no try/finally and nothing in the script deletes a file: when an
\* exception ends the run the disk stays as it is.
DiskAfterCleanup(d, w) == d \ w

DiskAfterFailure(d, w) == d

InitRun ==
    /\ rpc = "ready" /\ runs = 0 /\ modelType = "" /\ nrows = 0
    /\ model = NoModel /\ fitted = NoFit /\ errMsg = <<>> /\ failedAt = ""
    /\ clock = 0 /\ disk = {} /\ written = {} /\ exports = <<>>
    /\ ret = NoPath /\ table = <<>> /\ header = <<>>
    /\ IdleLoad /\ IdlePre /\ IdleRO

\* A run starts: main up to line 267, with the model type and the size of
\* the processed frame as inputs.
StartRun(mt, n) ==
    /\ rpc \in {"ready", "done", "failed"}
    /\ runs < MaxRuns
    /\ runs' = runs + 1
    /\ modelType' = mt
    /\ nrows' = n
    /\ model' = NoModel /\ fitted' = NoFit
    /\ errMsg' = <<>> /\ failedAt' = ""
    /\ written' = {} /\ ret' = NoPath /\ table' = <<>> /\ header' = <<>>
    /\ rpc' = "split"
    /\ UNCHANGED <<clock, disk, exports, loadVars, preVars, roVars>>

\* An exception ends the run at position pos.
Fail(pos, msg) ==
    /\ rpc' = "failed"
    /\ failedAt' = pos
    /\ errMsg' = msg

\* Lines 270-277
SplitAndScale ==
    /\ rpc = "split"
    /\ ~SplitRaises(nrows)
    /\ rpc' = "train"
    /\ UNCHANGED <<runs, modelType, nrows, model, fitted, errMsg, failedAt, clock,
                   disk, written, exports, ret, table, header,
                   loadVars, preVars, roVars>>

SplitRaise ==
    /\ rpc = "split"
    /\ SplitRaises(nrows)
    /\ Fail("split", <<"train_test_split raised">>)
    /\ disk' = DiskAfterFailure(disk, written)
    /\ UNCHANGED <<runs, modelType, nrows, model, fitted, clock,
                   written, exports, ret, table, header,
                   loadVars, preVars, roVars>>

\* train_model, lines 112-131, for a recognized model type: the estimator
\* is constructed and fitted.  What fit learns is any value per feature;
\* coef_ lists the values in the order of X_train's columns.
train_model ==
    /\ rpc = "train"
    /\ modelType \in Recognized
    /\ \E f \in [intercept : CoefVals, coef : [Range(FeatureCols) -> CoefVals]] :
          IF modelType = "linear"
          THEN /\ fitted' = f
               /\ model' = [cls |-> ClassName(modelType),
                            coef_ |-> [i \in 1..Len(FeatureCols) |-> f.coef[FeatureCols[i]]],
                            intercept_ |-> f.intercept]
          ELSE /\ fitted' = NoFit
               /\ model' = [cls |-> ClassName(modelType), coef_ |-> <<>>, intercept_ |-> 0]
    /\ rpc' = "clarke"
    /\ UNCHANGED <<runs, modelType, nrows, errMsg, failedAt, clock,
                   disk, written, exports, ret, table, header,
                   loadVars, preVars, roVars>>

\* train_model, lines 127-128: any other model type
train_model_raise ==
    /\ rpc = "train"
    /\ modelType \notin Recognized
    /\ Fail("train", UnknownModelMsg(modelType))
    /\ disk' = DiskAfterFailure(disk, written)
    /\ UNCHANGED <<runs, modelType, nrows, model, fitted, clock,
                   written, exports, ret, table, header,
                   loadVars, preVars, roVars>>

\* The file of position pos is written in full.
WriteFile(pos) ==
    /\ disk' = disk \cup {PathAt(pos)}
    /\ written' = written \cup {PathAt(pos)}

\* evaluate_model, lines 137-170: predictions, metrics, the Clarke grid
SaveClarkeGrid ==
    /\ rpc = "clarke"
    /\ WriteFile("clarke")
    /\ rpc' = "residuals"
    /\ UNCHANGED <<runs, modelType, nrows, model, fitted, errMsg, failedAt, clock,
                   exports, ret, table, header, loadVars, preVars, roVars>>

\* evaluate_model, lines 173-181
SaveResiduals ==
    /\ rpc = "residuals"
    /\ WriteFile("residuals")
    /\ rpc' = IF HasImportances(model) THEN "importance" ELSE "export"
    /\ UNCHANGED <<runs, modelType, nrows, model, fitted, errMsg, failedAt, clock,
                   exports, ret, table, header, loadVars, preVars, roVars>>

\* evaluate_model, lines 184-194
SaveImportances ==
    /\ rpc = "importance"
    /\ WriteFile("importance")
    /\ rpc' = "export"
    /\ UNCHANGED <<runs, modelType, nrows, model, fitted, errMsg, failedAt, clock,
                   exports, ret, table, header, loadVars, preVars, roVars>>

\* save_coefficients, lines 208-214: the directory is made if absent, the
\* clock is read.
ExportBegin ==
    /\ rpc = "export"
    /\ \E t \in clock..MaxClock :
          /\ clock' = t
          /\ exports' = Append(exports, [ts |-> t, paths |-> {}])
    /\ disk' = disk \cup {OutputDir}
    /\ rpc' = IF IsLinear(model) THEN "csv"
              ELSE IF IsEnsemble(model) THEN "joblib" ELSE "return"
    /\ UNCHANGED <<runs, modelType, nrows, model, fitted, errMsg, failedAt,
                   written, ret, table, header, loadVars, preVars, roVars>>

\* os.makedirs raises
MakedirsRaise ==
    /\ rpc = "export"
    /\ OutputDir \notin disk
    /\ Fail("export", <<"makedirs raised">>)
    /\ disk' = DiskAfterFailure(disk, written)
    /\ UNCHANGED <<runs, modelType, nrows, model, fitted, clock,
                   written, exports, ret, table, header,
                   loadVars, preVars, roVars>>

\* Lines 217-223
WriteCoefficientTable ==
    /\ rpc = "csv"
    /\ table' = CoeffTable(model, FeatureCols)
    /\ WriteFile("csv")
    /\ exports' = Exported(PathAt("csv"))
    /\ rpc' = "header"
    /\ UNCHANGED <<runs, modelType, nrows, model, fitted, errMsg, failedAt, clock,
                   ret, header, loadVars, preVars, roVars>>

\* Lines 226-234
WriteHeader ==
    /\ rpc = "header"
    /\ header' = HeaderConstants(table)
    /\ WriteFile("header")
    /\ exports' = Exported(PathAt("header"))
    /\ rpc' = "return"
    /\ UNCHANGED <<runs, modelType, nrows, model, fitted, errMsg, failedAt, clock,
                   ret, table, loadVars, preVars, roVars>>

\* Lines 236-240
DumpJoblib ==
    /\ rpc = "joblib"
    /\ WriteFile("joblib")
    /\ exports' = Exported(PathAt("joblib"))
    /\ rpc' = "return"
    /\ UNCHANGED <<runs, modelType, nrows, model, fitted, errMsg, failedAt, clock,
                   ret, table, header, loadVars, preVars, roVars>>

\* Lines 242-243: filepath, built at lines 213-214, is returned
ExportReturn ==
    /\ rpc = "return"
    /\ ret' = CoeffPath(model.cls, CurTs)
    /\ rpc' = "scatter"
    /\ UNCHANGED <<runs, modelType, nrows, model, fitted, errMsg, failedAt, clock,
                   disk, written, exports, table, header,
                   loadVars, preVars, roVars>>

\* main, lines 303-313 (lines 286-297 before the export only compute and
\* print the metrics and the clinical accuracy figures)
SaveScatter ==
    /\ rpc = "scatter"
    /\ WriteFile("scatter")
    /\ rpc' = "done"
    /\ UNCHANGED <<runs, modelType, nrows, model, fitted, errMsg, failedAt, clock,
                   exports, ret, table, header, loadVars, preVars, roVars>>

\* Writing a file raises (savefig, to_csv, open, joblib.dump) before
\* anything of the file is on disk, e.g. for lack of permission.
WriteRaise ==
    /\ rpc \in WritePositions
    /\ Fail(rpc, <<"write raised">>)
    /\ disk' = DiskAfterFailure(disk, written)
    /\ UNCHANGED <<runs, modelType, nrows, model, fitted, clock,
                   written, exports, ret, table, header,
                   loadVars, preVars, roVars>>

NextRun ==
    \/ \E mt \in ModelTypes, n \in 0..MaxSamples : StartRun(mt, n)
    \/ SplitAndScale
    \/ SplitRaise
    \/ train_model
    \/ train_model_raise
    \/ SaveClarkeGrid
    \/ SaveResiduals
    \/ SaveImportances
    \/ ExportBegin
    \/ MakedirsRaise
    \/ WriteCoefficientTable
    \/ WriteHeader
    \/ DumpJoblib
    \/ ExportReturn
    \/ SaveScatter
    \/ WriteRaise

SpecRun == InitRun /\ [][NextRun]_vars

\* ------------------------------------------------------------------------
\* Properties of train_model, save_coefficients and main
\* ------------------------------------------------------------------------

\* C4 (as claimed): when train_model is given a model type other than the
\* three recognized ones it raises, the message of the error names each of
\* the three recognized types, and no estimator has been constructed.
C4_UnknownTypeListsChoices ==
    (rpc = "failed" /\ failedAt = "train") =>
        /\ modelType \notin Recognized
        /\ model = NoModel
        /\ \A name \in Recognized : name \in Range(errMsg)

\* C5 (as claimed): when save_coefficients has returned, the path it
\* returned is one of the files that call wrote.
C5_ReturnsWrittenPath ==
    rpc \in {"scatter", "done"} => ret \in exports[Len(exports)].paths

\* C6 (as claimed): two calls of save_coefficients that read different
\* timestamps write no path in common, so no export overwrites a file of
\* another.
C6_ExportsNeverCollide ==
    \A i, j \in 1..Len(exports) :
        (i # j /\ exports[i].ts # exports[j].ts) =>
            exports[i].paths \cap exports[j].paths = {}

\* C6 (amended): two calls of save_coefficients that read different
\* timestamps have no coefficient table and no serialized model in common;
\* the one path they can share is the firmware header, whose name is fixed.
C6_OnlyHeaderShared ==
    \A i, j \in 1..Len(exports) :
        (i # j /\ exports[i].ts # exports[j].ts) =>
            exports[i].paths \cap exports[j].paths \subseteq {HeaderPath}

\* Two exports of a linear model at different timestamps, each with its
\* table and the header.
C6_Witness ==
    /\ Len(exports) = 2
    /\ exports[1].ts # exports[2].ts
    /\ HeaderPath \in exports[1].paths \cap exports[2].paths
    /\ \E p \in exports[1].paths : p # HeaderPath
    /\ \E p \in exports[2].paths : p # HeaderPath

\* C7 (as claimed): a run that failed has left none of the files it wrote.
C7_NoPartialResults ==
    rpc = "failed" => written \cap disk = {}

\* C7 (amended): a run that fails at the split or in train_model has written
\* no file; a run that fails later has rolled nothing back: every file it
\* wrote before the failure is still there.
C7_FailureKeepsWhatWasWritten ==
    rpc = "failed" =>
        /\ failedAt \in {"split", "train"} => written = {}
        /\ written \subseteq disk

\* A run that failed inside save_coefficients after evaluate_model had
\* written its plots.
C7_Witness ==
    /\ rpc = "failed"
    /\ failedAt \in ExportPositions
    /\ ClarkePath(model.cls) \in written \cap disk

\* C9: the coefficient table written for a linear model has 6 rows, the
\* first 'intercept' with the fitted intercept, then the five features in
\* the order ratio, variability, slope, pulse_rate, acdc_ratio, each with
\* the coefficient fitted for it; the header has one constant per row of
\* the table, of the same name, in the same order.
C9_TableAndHeaderLayout ==
    /\ (rpc \in {"header", "return", "scatter", "done"} /\ IsLinear(model)) =>
          /\ Len(table) = 6
          /\ table[1] = [feature |-> "intercept", coefficient |-> fitted.intercept]
          /\ \A i \in 1..Len(FeatureCols) :
                table[i + 1] = [feature |-> FeatureCols[i],
                                coefficient |-> fitted.coef[FeatureCols[i]]]
    /\ (rpc \in {"return", "scatter", "done"} /\ IsLinear(model)) =>
          /\ Len(header) = Len(table)
          /\ \A i \in 1..Len(table) : header[i].name = table[i].feature

\* A linear model whose intercept and coefficients are not all equal has
\* been exported, table and header.
C9_Witness ==
    /\ rpc = "done"
    /\ IsLinear(model)
    /\ Len(header) > 0
    /\ fitted.intercept # fitted.coef["ratio"]
    /\ fitted.coef["ratio"] # fitted.coef["acdc_ratio"]

============================================================================
